---- MODULE Spec2Model ----
(***************************************************************************)
(* A model of the IBKR trading system's stage-one flow:                    *)
(*   IBConnector        (src/connection/ib_connector.py)                   *)
(*   ConnectionManager  (src/connection/connection_manager.py)             *)
(*   initialize_stage_one (src/stages.py)                                  *)
(* The brokerage client (ib_insync.IB) is the environment: each of its     *)
(* calls returns or raises, and an open session may drop at any time.      *)
(*                                                                         *)
(* Texts (Python str) are sequences of tokens, so that an f-string is a    *)
(* concatenation and "contains" is a contiguous sub-sequence.  Optional    *)
(* numbers are <<>> (None) or <<n>>.  A dict is a function from keys.      *)
(***************************************************************************)
EXTENDS Integers, Sequences, FiniteSets, TLC

(* ----------------------------- bounds ---------------------------------- *)

\* Longest list ib.accountValues() returns in the model.
MaxAccValues == 2

(* ----------------------------- inputs ---------------------------------- *)

Managers == {1, 2}

AccountCodes == {"DU1234567", "TestAcc123"}

Symbols == {"AAPL", "NOSTOCK"}

Host == "127.0.0.1"

PortText == "7497"

(* ----------------------------- texts ----------------------------------- *)

Contains(s, t) ==
    \E i \in 1..(Len(s) + 1) :
        /\ i + Len(t) - 1 <= Len(s)
        /\ SubSeq(s, i, i + Len(t) - 1) = t

(* --------------------------- exceptions -------------------------------- *)

NoExc == [type |-> "none", msg |-> <<>>]

Exc(t, m) == [type |-> t, msg |-> m]

\* Python's built-in exception hierarchy, as far as the handlers tell apart.
Ancestors(t) ==
    CASE t = "ConnectionRefusedError" ->
            {"ConnectionRefusedError", "ConnectionError", "Exception"}
      [] t = "ConnectionError" -> {"ConnectionError", "Exception"}
      [] t = "RuntimeError" -> {"RuntimeError", "Exception"}
      [] OTHER -> {}

IsInstance(e, cls) == cls \in Ancestors(e.type)

\* What a call of the brokerage client may raise.
ClientErrors ==
    { Exc("ConnectionError", <<"socket closed">>),
      Exc("RuntimeError", <<"boom">>) }

\* What ib.connect() may raise.
ConnectErrors == ClientErrors \cup { Exc("ConnectionRefusedError", <<"refused">>) }

(* ------------------- invocation counts of one call --------------------- *)

\* open: ib.connect, close: ib.disconnect, connect: IBConnector.connect,
\* acct: ib.accountValues -- how often one call of an operation invoked each.
NoCalls == [open |-> 0, close |-> 0, connect |-> 0, acct |-> 0]

AddCalls(a, b) ==
    [open |-> a.open + b.open, close |-> a.close + b.close,
     connect |-> a.connect + b.connect, acct |-> a.acct + b.acct]

\* The outcome of one operation: the state it leaves, what it raised,
\* what it returned and what it invoked.
Outcome(c, e, r, n) == [c |-> c, exc |-> e, ret |-> r, calls |-> n]

(* ---------------------------- IBConnector ------------------------------ *)

\* One manager with its connector and the connector's client:
\*   ib    the client's connected state (ib.isConnected())
\*   flag  IBConnector._is_connected
\*   inst  ConnectionManager._ib_instance: 0 is None, else a client's identity
\*   ibObj the identity of IBConnector.ib
\*   sub   a market-data subscription is live on the session
NewManager(m) ==
    [ib |-> FALSE, flag |-> FALSE, inst |-> 0, ibObj |-> m, sub |-> FALSE]

\* An is_connected() that answers from the cached flag.
ConnectorIsConnectedCached(c) == Outcome(c, NoExc, c.flag, NoCalls)

ConnectorIsConnected(c) ==
    Outcome([c EXCEPT !.flag = c.ib], NoExc, c.ib, NoCalls)

\* A connect() that opens the session without asking whether it is open.
ConnectorConnectUnguarded(c, out) ==
    LET n == [NoCalls EXCEPT !.connect = 1, !.open = 1] IN
    IF out = NoExc
    THEN Outcome([c EXCEPT !.ib = TRUE, !.flag = TRUE], NoExc, "None", n)
    ELSE Outcome([c EXCEPT !.flag = FALSE],
                 Exc("ConnectionError", <<"Failed to connect to IB: ">> \o out.msg),
                 "None", n)

\* A connect() that tries ib.connect() a second time when the first try raises.
ConnectorConnectRetries(c, out) ==
    LET n == [NoCalls EXCEPT !.connect = 1] IN
    IF ~c.ib
    THEN IF out = NoExc
         THEN Outcome([c EXCEPT !.ib = TRUE, !.flag = TRUE], NoExc, "None",
                      [n EXCEPT !.open = 1])
         ELSE Outcome([c EXCEPT !.flag = FALSE],
                      Exc("ConnectionError",
                          <<"Failed to connect to IB: ">> \o out.msg),
                      "None", [n EXCEPT !.open = 2])
    ELSE Outcome([c EXCEPT !.flag = TRUE], NoExc, "None", n)

\* A connect() that leaves its flag alone when ib.connect() raises.
ConnectorConnectKeepsFlag(c, out) ==
    LET n == [NoCalls EXCEPT !.connect = 1] IN
    IF ~c.ib
    THEN IF out = NoExc
         THEN Outcome([c EXCEPT !.ib = TRUE, !.flag = TRUE], NoExc, "None",
                      [n EXCEPT !.open = 1])
         ELSE Outcome(c, Exc("ConnectionError",
                             <<"Failed to connect to IB: ">> \o out.msg),
                      "None", [n EXCEPT !.open = 1])
    ELSE Outcome([c EXCEPT !.flag = TRUE], NoExc, "None", n)

\* out: what ib.connect() does if it is invoked (NoExc: it returns).
ConnectorConnect(c, out) ==
    LET n == [NoCalls EXCEPT !.connect = 1] IN
    IF ~c.ib
    THEN IF out = NoExc
         THEN Outcome([c EXCEPT !.ib = TRUE, !.flag = TRUE], NoExc, "None",
                      [n EXCEPT !.open = 1])
         ELSE IF IsInstance(out, "ConnectionRefusedError")
         THEN Outcome([c EXCEPT !.flag = FALSE],
                      Exc("ConnectionError",
                          <<"Connection refused by IB Gateway/TWS on ",
                            Host, ":", PortText>>),
                      "None", [n EXCEPT !.open = 1])
         ELSE Outcome([c EXCEPT !.flag = FALSE],
                      Exc("ConnectionError",
                          <<"Failed to connect to IB: ">> \o out.msg),
                      "None", [n EXCEPT !.open = 1])
    ELSE Outcome([c EXCEPT !.flag = TRUE], NoExc, "None", n)

\* What ib.disconnect() may do: return (the session is closed), or raise,
\* leaving the session closed or open.
DisconnectOutcomes ==
    { [exc |-> NoExc, closed |-> TRUE] }
      \cup { [exc |-> e, closed |-> b] : e \in ClientErrors, b \in BOOLEAN }

\* The client's session ends: its subscriptions end with it.
SessionClosed(c) == [c EXCEPT !.ib = FALSE, !.sub = FALSE]

\* A disconnect() that does not touch the flag.
ConnectorDisconnectKeepsFlag(c, out) ==
    IF c.ib
    THEN Outcome(IF out.exc = NoExc \/ out.closed THEN SessionClosed(c) ELSE c,
                 out.exc, "None", [NoCalls EXCEPT !.close = 1])
    ELSE Outcome(c, NoExc, "None", NoCalls)

ConnectorDisconnect(c, out) ==
    IF c.ib
    THEN IF out.exc = NoExc
         THEN Outcome([SessionClosed(c) EXCEPT !.flag = FALSE], NoExc, "None",
                      [NoCalls EXCEPT !.close = 1])
         ELSE Outcome(IF out.closed THEN SessionClosed(c) ELSE c, out.exc, "None",
                      [NoCalls EXCEPT !.close = 1])
    ELSE Outcome(c, NoExc, "None", NoCalls)

(* -------------------------- ConnectionManager --------------------------- *)

\* A get_ib_instance() that connects on every call.
GetIbInstanceAlwaysConnects(c, out) ==
    LET r2 == ConnectorConnectUnguarded(c, out) IN
    IF r2.exc # NoExc
    THEN Outcome(r2.c, r2.exc, 0, r2.calls)
    ELSE Outcome([r2.c EXCEPT !.inst = r2.c.ibObj], NoExc, r2.c.ibObj, r2.calls)

\* out: what ib.connect() does if it is invoked.  ret is the handle returned.
GetIbInstance(c, out) ==
    LET r1 == ConnectorIsConnected(c)
        r2 == ConnectorConnect(r1.c, out)
        \* lines 42-50: connect when not connected; a ConnectionError is re-raised
        c3 == IF r1.ret THEN r1.c ELSE [r2.c EXCEPT !.inst = r2.c.ibObj]
        n3 == IF r1.ret THEN NoCalls ELSE r2.calls
        \* lines 53-54
        r4 == ConnectorIsConnected(c3)
        c5 == IF r4.ret /\ r4.c.inst = 0
              THEN [r4.c EXCEPT !.inst = r4.c.ibObj] ELSE r4.c
    IN  IF ~r1.ret /\ r2.exc # NoExc
        THEN Outcome(r2.c, r2.exc, 0, r2.calls)
        ELSE IF c5.inst = 0
        THEN Outcome(c5,
                     Exc("ConnectionError",
                         <<"Failed to obtain IB instance from connector.">>),
                     0, n3)
        ELSE Outcome(c5, NoExc, c5.inst, n3)

\* out: what ib.disconnect() does if it is invoked.
\* A manager's disconnect() that keeps its handle.
MgrDisconnectKeepsHandle(c, out) ==
    LET r1 == ConnectorIsConnected(c)
        r2 == ConnectorDisconnect(r1.c, out)
    IN  IF r1.ret
        THEN Outcome(r2.c, r2.exc, "None", r2.calls)
        ELSE Outcome(r1.c, NoExc, "None", NoCalls)

MgrDisconnect(c, out) ==
    LET r1 == ConnectorIsConnected(c)
        r2 == ConnectorDisconnect(r1.c, out)
    IN  IF r1.ret
        THEN IF r2.exc # NoExc
             THEN Outcome(r2.c, r2.exc, "None", r2.calls)
             ELSE Outcome([r2.c EXCEPT !.inst = 0], NoExc, "None", r2.calls)
        ELSE Outcome(r1.c, NoExc, "None", NoCalls)

MgrIsConnected(c) == ConnectorIsConnected(c)

(* account values: a list of (tag, value) *)

KnownTags ==
    {"NetLiquidation", "TotalCashValue", "RealizedPnL", "UnrealizedPnL", "CashBalance"}

\* The tags the client reports in the model: two known ones and one other.
FeedTags == {"NetLiquidation", "CashBalance", "BuyingPower"}

FeedValues == {<<"100">>, <<"250">>}

AccountValue == [tag : FeedTags, value : FeedValues]

AccValueLists == UNION { [1..n -> AccountValue] : n \in 0..MaxAccValues }

\* What ib.accountValues() may do: return a list, or raise.
AccountOutcomes ==
    { [exc |-> NoExc, values |-> l] : l \in AccValueLists }
      \cup { [exc |-> e, values |-> <<>>] : e \in ClientErrors }

EmptyDict == [k \in {} |-> <<>>]

\* d[k] = v of a Python dict.
Put(d, k, v) == (k :> v) @@ d

\* d.get(k, default)
Get(d, k, default) == IF k \in DOMAIN d THEN d[k] ELSE default

MockSummary(account_code) ==
    [AccountCode |-> <<account_code>>,
     NetLiquidation |-> <<"1000000 (Mock)">>,
     TotalCashValue |-> <<"1000000 (Mock)">>,
     RealizedPnL |-> <<"0 (Mock)">>,
     UnrealizedPnL |-> <<"0 (Mock)">>,
     ConnectionStatus |-> <<"Disconnected - Mock Data">>]

\* A loop that copies every tag it is given.
RECURSIVE FilterTagsCopiesAll(_, _, _)
FilterTagsCopiesAll(summary, vals, i) ==
    IF i > Len(vals) THEN summary
    ELSE FilterTagsCopiesAll(Put(summary, vals[i].tag, vals[i].value), vals, i + 1)

\* lines 124-126: the loop over acc_values, from its i-th element on.
RECURSIVE FilterTags(_, _, _)
FilterTags(summary, vals, i) ==
    IF i > Len(vals) THEN summary
    ELSE FilterTags(IF vals[i].tag \in KnownTags
                    THEN Put(summary, vals[i].tag, vals[i].value)
                    ELSE summary,
                    vals, i + 1)

\* lines 122-140: the summary of a non-empty list.
LiveSummary(account_code, vals) ==
    LET start == [AccountCode |-> <<account_code>>,
                  ConnectionStatus |-> <<"Connected - Live Data">>]
        summary == FilterTags(start, vals, 1)
    IN  IF Cardinality(DOMAIN summary) <= Cardinality(DOMAIN start)
        THEN Put(Put(Put(summary,
                 "NetLiquidation", Get(summary, "NetLiquidation", <<"N/A (Live-Check)">>)),
                 "TotalCashValue", Get(summary, "TotalCashValue", <<"N/A (Live-Check)">>)),
                 "Note", <<"Some values might be missing from live feed for this account.">>)
        ELSE summary

\* A test that looks at is_connected() only.
UsesMockIgnoresHandle(connected, inst) == ~connected

\* line 97: not self.is_connected() or not self._ib_instance
UsesMock(connected, inst) == ~connected \/ inst = 0

\* An error mapping that carries a fixed text instead of the exception's.
ErrorSummaryFixedText(account_code, e) ==
    [AccountCode |-> <<account_code>>,
     Error |-> <<"Error fetching account summary">>,
     NetLiquidation |-> <<"Error (Mock)">>,
     TotalCashValue |-> <<"Error (Mock)">>,
     ConnectionStatus |-> <<"Connected but error fetching - Mock Data">>]

\* lines 144-150: the mapping returned when the query raised e.
ErrorSummary(account_code, e) ==
    [AccountCode |-> <<account_code>>,
     Error |-> e.msg,
     NetLiquidation |-> <<"Error (Mock)">>,
     TotalCashValue |-> <<"Error (Mock)">>,
     ConnectionStatus |-> <<"Connected but error fetching - Mock Data">>]

\* An empty-result mapping without the account code.
EmptySummaryErrorOnly(account_code) ==
    [Error |-> <<"No account values returned">>]

\* line 120: the mapping returned when the query returned nothing.
EmptySummary(account_code) ==
    [Error |-> <<"No account values returned">>,
     AccountCode |-> <<account_code>>]

\* out: what ib.accountValues() does if it is invoked.  ret is the dict returned.
GetAccountSummary(c, account_code, out) ==
    LET r1 == MgrIsConnected(c) IN
    IF UsesMock(r1.ret, r1.c.inst)
    THEN Outcome(r1.c, NoExc, MockSummary(account_code), NoCalls)
    ELSE IF out.exc # NoExc
    THEN Outcome(r1.c, NoExc, ErrorSummary(account_code, out.exc),
                 [NoCalls EXCEPT !.acct = 1])
    ELSE IF out.values = <<>>
    THEN Outcome(r1.c, NoExc, EmptySummary(account_code),
                 [NoCalls EXCEPT !.acct = 1])
    ELSE Outcome(r1.c, NoExc, LiveSummary(account_code, out.values),
                 [NoCalls EXCEPT !.acct = 1])

(* ------------------------------- state -------------------------------- *)

VARIABLES
    mgr,          \* each manager, with its connector and its client
    last,         \* the last operation called on a manager, and its outcome
    pc,           \* where the call of initialize_stage_one stands
    account_code, \* its arguments
    symbol,
    results,      \* its result record
    ib_instance,  \* its local ib_instance (0: not bound)
    pending,      \* the exception in flight, NoExc if none
    h             \* what the call has invoked and observed so far

vars == <<mgr, last, pc, account_code, symbol, results, ib_instance, pending, h>>

stageVars == <<pc, account_code, symbol, results, ib_instance, pending, h>>

\* self.<attribute> = c on manager m: the attributes are the instance's own.
\* An assignment that lands on the class attribute _ib_instance, which every
\* manager then reads.
StoreOnClass(f, m, c) ==
    [k \in DOMAIN f |-> IF k = m THEN c ELSE [f[k] EXCEPT !.inst = c.inst]]

Store(f, m, c) == [f EXCEPT ![m] = c]

\* The record of a call of operation op on manager m with outcome r.
Called(op, m, r) ==
    [op |-> op, m |-> m, pre |-> mgr[m], exc |-> r.exc, ret |-> r.ret,
     calls |-> r.calls]

\* The same, with what the client did when the call reached it (inp).
CalledWith(op, m, r, inp) == ("inp" :> inp) @@ Called(op, m, r)

\* The client's behaviour is drawn only for a call that reaches the client
\* (n invocations): otherwise it is the fixed value idle.
Reaches(n, out, idle) == n > 0 \/ out = idle

NoValue == [kind |-> "none"]

DictValue(d) == [kind |-> "dict", val |-> d]

TextValue(t) == [kind |-> "str", val |-> t]

BoolValue(b) == [kind |-> "bool", val |-> b]

\* lines 37-42
\* A record that starts with a market_data entry.
NewResultsWithMarketData ==
    [connection_status |-> FALSE, account_summary |-> EmptyDict,
     market_data |-> TextValue(<<"pending">>), error |-> NoValue]

NewResults ==
    [connection_status |-> FALSE, account_summary |-> EmptyDict,
     market_data |-> NoValue, error |-> NoValue]

NoHistory ==
    [nGetIb |-> 0, nMgrDisconnect |-> 0, nReq |-> 0, nCancel |-> 0,
     calls |-> NoCalls,
     acqExc |-> NoExc, mdExc |-> NoExc, cancelExc |-> NoExc,
     raised |-> FALSE, acquired |-> FALSE,
     summary3 |-> NoValue, snap |-> [kind |-> "unread"],
     cleanupConnected |-> NoValue,
     ops |-> <<>>,
     handled |-> NoExc]

Init ==
    /\ mgr = [m \in Managers |-> NewManager(m)]
    /\ last = [op |-> "none", m |-> 0]
    /\ pc = "acquire"
    /\ account_code \in AccountCodes
    /\ symbol \in Symbols
    /\ results = NewResults
    /\ ib_instance = 0
    /\ pending = NoExc
    /\ h = NoHistory

(* ------------- the connector's and the manager's operations ------------ *)
(* called in any order on either manager                                   *)

\* The session of manager m's client is lost from outside.
Drop(m) ==
    /\ mgr[m].ib
    /\ mgr' = Store(mgr, m, SessionClosed(mgr[m]))
    /\ last' = [op |-> "drop", m |-> m]

ApiConnect(m) ==
    \E out \in {NoExc} \cup ConnectErrors :
        LET r == ConnectorConnect(mgr[m], out) IN
        /\ Reaches(r.calls.open, out, NoExc)
        /\ mgr' = Store(mgr, m, r.c)
        /\ last' = CalledWith("connect", m, r, out)

ApiConnectorDisconnect(m) ==
    \E out \in DisconnectOutcomes :
        LET r == ConnectorDisconnect(mgr[m], out) IN
        /\ Reaches(r.calls.close, out, [exc |-> NoExc, closed |-> TRUE])
        /\ mgr' = Store(mgr, m, r.c)
        /\ last' = CalledWith("connector_disconnect", m, r, out)

ApiConnectorIsConnected(m) ==
    LET r == ConnectorIsConnected(mgr[m]) IN
    /\ mgr' = Store(mgr, m, r.c)
    /\ last' = Called("connector_is_connected", m, r)

ApiGetIbInstance(m) ==
    \E out \in {NoExc} \cup ConnectErrors :
        LET r == GetIbInstance(mgr[m], out) IN
        /\ Reaches(r.calls.open, out, NoExc)
        /\ mgr' = Store(mgr, m, r.c)
        /\ last' = CalledWith("get_ib_instance", m, r, out)

ApiDisconnect(m) ==
    \E out \in DisconnectOutcomes :
        LET r == MgrDisconnect(mgr[m], out) IN
        /\ Reaches(r.calls.close, out, [exc |-> NoExc, closed |-> TRUE])
        /\ mgr' = Store(mgr, m, r.c)
        /\ last' = CalledWith("disconnect", m, r, out)

ApiIsConnected(m) ==
    LET r == MgrIsConnected(mgr[m]) IN
    /\ mgr' = Store(mgr, m, r.c)
    /\ last' = Called("is_connected", m, r)

ApiGetAccountSummary(m) ==
    \E out \in AccountOutcomes :
        LET r == GetAccountSummary(mgr[m], account_code, out) IN
        /\ Reaches(r.calls.acct, out, [exc |-> NoExc, values |-> <<>>])
        /\ mgr' = Store(mgr, m, r.c)
        /\ last' = CalledWith("get_account_summary", m, r, out)

ApiNext ==
    \/ \E m \in Managers : Drop(m) /\ UNCHANGED stageVars
    \/ \E m \in Managers : ApiConnect(m) /\ UNCHANGED stageVars
    \/ \E m \in Managers : ApiConnectorDisconnect(m) /\ UNCHANGED stageVars
    \/ \E m \in Managers : ApiConnectorIsConnected(m) /\ UNCHANGED stageVars
    \/ \E m \in Managers : ApiGetIbInstance(m) /\ UNCHANGED stageVars
    \/ \E m \in Managers : ApiDisconnect(m) /\ UNCHANGED stageVars
    \/ \E m \in Managers : ApiIsConnected(m) /\ UNCHANGED stageVars
    \/ \E m \in Managers : ApiGetAccountSummary(m) /\ UNCHANGED stageVars

\* The connector and the manager never read the stage's symbol.
ApiInit == Init /\ symbol = "AAPL"

ApiSpec == ApiInit /\ [][ApiNext]_vars

(* ------------------------ initialize_stage_one ------------------------- *)

\* The manager this call constructs (line 36).
Self == 1

(* the market-data snapshot *)

PriceValues == {<<>>, <<0>>, <<150>>}

TimeValues == {<<>>, <<"2023-01-01", "12:00:00">>}

Ticker ==
    [last : PriceValues, close : PriceValues, bid : {<<149>>}, ask : {<<151>>},
     volume : {<<1000>>}, time : TimeValues]

TickerValue(t) == [kind |-> "ticker", val |-> t]

\* What ib.ticker() may do: return None or a ticker, or raise.
SnapshotOutcomes ==
    { [exc |-> NoExc, ticker |-> NoValue] }
      \cup { [exc |-> NoExc, ticker |-> TickerValue(t)] : t \in Ticker }
      \cup { [exc |-> e, ticker |-> NoValue] : e \in ClientErrors }

\* Python's truth value of an optional number: None and 0 are false.
Truthy(v) == v # <<>> /\ v # <<0>>

\* A check that only asks whether a ticker came back.
TickerPresent(tk) == tk.kind # "none"

\* line 94
TickerHasData(tk) ==
    /\ tk.kind # "none"
    /\ Truthy(tk.val.last) \/ Truthy(tk.val.close)

\* datetime.isoformat(): date and time joined by "T"
IsoFormat(tm) == <<tm[1], "T", tm[2]>>

\* lines 95-103
MarketData(sym, t) ==
    [symbol |-> <<sym>>, last_price |-> t.last, bid_price |-> t.bid,
     ask_price |-> t.ask, close_price |-> t.close, volume |-> t.volume,
     timestamp |-> IF t.time # <<>> THEN IsoFormat(t.time) ELSE <<>>]

\* str(ticker) inside an f-string
TickerText(tk) == IF tk.kind = "none" THEN "None" ELSE "Ticker(...)"

\* line 106
NoDataText(sym, tk) ==
    <<"No market data received for ", sym, ". Ticker: ", TickerText(tk)>>

\* line 110
MdErrorText(sym, e) == <<"Error fetching market data for ", sym, ": ">> \o e.msg

\* An error text that leaves the exception out.
StageConnErrorTextBare(e) == <<"Stage One Connection Error">>

\* line 119
StageConnErrorText(e) == <<"Stage One Connection Error: ">> \o e.msg

\* line 126
StageOtherErrorText(e) == <<"An unexpected error occurred in Stage One: ">> \o e.msg

\* An inner handler that lets a ConnectionError through.
InnerCatchesNoConnectionError(e) ==
    IsInstance(e, "Exception") /\ ~IsInstance(e, "ConnectionError")

\* line 109: except Exception
InnerCatches(e) == IsInstance(e, "Exception")

\* lines 118 and 125: the except clause of the outer try that takes e.
HandlerFor(e) ==
    IF IsInstance(e, "ConnectionError") THEN "except_connection"
    ELSE IF IsInstance(e, "Exception") THEN "except_other"
    ELSE "finally"

\* A cleanup that cancels whatever the session's state.
CancelAlways(c) == TRUE

\* line 114: ib_instance.isConnected()
CancelGuard(c) == c.ib

\* A final block that never disconnects.
FinalGuardNever(c) == FALSE

\* line 135: manager.is_connected()
FinalGuard(c) == MgrIsConnected(c).ret

\* The client calls counted in n, by name, in the order the methods make them.
OpsOf(n) ==
    (IF n.open > 0 THEN <<"connect">> ELSE <<>>)
      \o (IF n.acct > 0 THEN <<"accountValues">> ELSE <<>>)
      \o (IF n.close > 0 THEN <<"disconnect">> ELSE <<>>)

Invoked(n) == [h EXCEPT !.calls = AddCalls(@, n), !.ops = @ \o OpsOf(n)]

\* line 46: ib_instance = manager.get_ib_instance()
Acquire ==
    /\ pc = "acquire"
    /\ \E out \in {NoExc} \cup ConnectErrors :
        LET r == GetIbInstance(mgr[Self], out)
            h1 == [Invoked(r.calls) EXCEPT !.nGetIb = @ + 1,
                       !.raised = @ \/ (r.calls.open > 0 /\ out # NoExc),
                       !.acqExc = r.exc]
        IN  /\ mgr' = Store(mgr, Self, r.c)
            /\ h' = h1
            /\ IF r.exc # NoExc
               THEN /\ pending' = r.exc
                    /\ pc' = HandlerFor(r.exc)
                    /\ UNCHANGED ib_instance
               ELSE /\ ib_instance' = r.ret
                    /\ pc' = "check"
                    /\ UNCHANGED pending
    /\ UNCHANGED <<last, account_code, symbol, results>>

\* lines 47-50: results['connection_status'] = manager.is_connected()
CheckConnected ==
    /\ pc = "check"
    /\ LET r == MgrIsConnected(mgr[Self]) IN
        /\ mgr' = Store(mgr, Self, r.c)
        /\ results' = [results EXCEPT !.connection_status = r.ret]
        /\ h' = [h EXCEPT !.acquired = r.ret]
        /\ pc' = IF r.ret THEN "summary" ELSE "early"
    /\ UNCHANGED <<last, account_code, symbol, ib_instance, pending>>

\* lines 53-57: the early return, which passes through the finally block
EarlyReturn ==
    /\ pc = "early"
    /\ \E out \in AccountOutcomes :
        LET r == GetAccountSummary(mgr[Self], account_code, out) IN
        /\ mgr' = Store(mgr, Self, r.c)
        /\ results' = [results EXCEPT
                          !.error = TextValue(<<"Failed to connect to Interactive Brokers.">>),
                          !.account_summary = r.ret]
        /\ h' = [Invoked(r.calls) EXCEPT
                    !.raised = @ \/ (r.calls.acct > 0 /\ out.exc # NoExc)]
    /\ pc' = "finally"
    /\ UNCHANGED <<last, account_code, symbol, ib_instance, pending>>

\* line 61: results['account_summary'] = manager.get_account_summary(...)
FetchSummary ==
    /\ pc = "summary"
    /\ \E out \in AccountOutcomes :
        LET r == GetAccountSummary(mgr[Self], account_code, out) IN
        /\ mgr' = Store(mgr, Self, r.c)
        /\ results' = [results EXCEPT !.account_summary = r.ret]
        /\ h' = [Invoked(r.calls) EXCEPT
                    !.raised = @ \/ (r.calls.acct > 0 /\ out.exc # NoExc),
                    !.summary3 = DictValue(r.ret)]
    /\ pc' = "contract"
    /\ UNCHANGED <<last, account_code, symbol, ib_instance, pending>>

\* line 68: contract = Stock(symbol, exchange, currency)
BuildContract ==
    /\ pc = "contract"
    /\ \E out \in {NoExc} \cup ClientErrors :
        IF out = NoExc
        THEN /\ pc' = "request"
             /\ UNCHANGED <<pending, h>>
        ELSE /\ pending' = out
             /\ pc' = HandlerFor(out)
             /\ h' = [h EXCEPT !.raised = TRUE]
    /\ UNCHANGED <<mgr, last, account_code, symbol, results, ib_instance>>

\* lines 109-111: an exception e raised inside the inner try
MdRaise(e) ==
    /\ h' = [h EXCEPT !.raised = TRUE, !.mdExc = e,
                      !.nReq = IF pc = "request" THEN @ + 1 ELSE @,
                      !.ops = IF pc = "request" THEN Append(@, "reqMktData")
                              ELSE IF pc = "snapshot" THEN Append(@, "ticker")
                              ELSE @]
    /\ IF InnerCatches(e)
       THEN /\ results' = [results EXCEPT
                              !.market_data = TextValue(MdErrorText(symbol, e))]
            /\ UNCHANGED pending
       ELSE /\ pending' = e
            /\ UNCHANGED results
    /\ pc' = "cleanup"

\* line 83: ib_instance.reqMktData(contract, '', False, False)
RequestMarketData ==
    /\ pc = "request"
    /\ \E out \in {NoExc} \cup ClientErrors :
        IF out = NoExc
        THEN /\ mgr' = Store(mgr, Self, [mgr[Self] EXCEPT !.sub = mgr[Self].ib])
             /\ h' = [h EXCEPT !.nReq = @ + 1, !.ops = Append(@, "reqMktData")]
             /\ pc' = "wait"
             /\ UNCHANGED <<results, pending>>
        ELSE /\ MdRaise(out)
             /\ UNCHANGED mgr
    /\ UNCHANGED <<last, account_code, symbol, ib_instance>>

\* line 91: ib_instance.sleep(2)
Wait ==
    /\ pc = "wait"
    /\ \E out \in {NoExc} \cup ClientErrors :
        IF out = NoExc
        THEN /\ pc' = "snapshot"
             /\ UNCHANGED <<results, pending, h>>
        ELSE MdRaise(out)
    /\ UNCHANGED <<mgr, last, account_code, symbol, ib_instance>>

\* lines 92-107: ticker = ib_instance.ticker(contract), and the result built of it
ReadSnapshot ==
    /\ pc = "snapshot"
    /\ \E out \in SnapshotOutcomes :
        IF out.exc = NoExc
        THEN /\ results' = [results EXCEPT !.market_data =
                    IF TickerHasData(out.ticker)
                    THEN DictValue(MarketData(symbol, out.ticker.val))
                    ELSE TextValue(NoDataText(symbol, out.ticker))]
             /\ h' = [h EXCEPT !.snap = out.ticker, !.ops = Append(@, "ticker")]
             /\ pc' = "cleanup"
             /\ UNCHANGED pending
        ELSE MdRaise(out.exc)
    /\ UNCHANGED <<mgr, last, account_code, symbol, ib_instance>>

\* Where control goes when the inner finally block ends without raising.
AfterCleanup == IF pending # NoExc THEN HandlerFor(pending) ELSE "finally"

\* lines 112-115: the inner finally block
Cleanup ==
    /\ pc = "cleanup"
    /\ IF CancelGuard(mgr[Self])
       THEN \E out \in {NoExc} \cup ClientErrors :
            /\ h' = [h EXCEPT !.nCancel = @ + 1,
                              !.ops = Append(@, "cancelMktData"),
                              !.cleanupConnected = BoolValue(mgr[Self].ib),
                              !.raised = @ \/ out # NoExc,
                              !.cancelExc = out]
            /\ IF out = NoExc
               THEN /\ mgr' = Store(mgr, Self, [mgr[Self] EXCEPT !.sub = FALSE])
                    /\ pc' = AfterCleanup
                    /\ UNCHANGED pending
               ELSE /\ pending' = out
                    /\ pc' = HandlerFor(out)
                    /\ UNCHANGED mgr
       ELSE /\ h' = [h EXCEPT !.cleanupConnected = BoolValue(mgr[Self].ib)]
            /\ pc' = AfterCleanup
            /\ UNCHANGED <<mgr, pending>>
    /\ UNCHANGED <<last, account_code, symbol, results, ib_instance>>

\* lines 118-123: except ConnectionError as ce
ExceptConnection ==
    /\ pc = "except_connection"
    /\ \E out \in AccountOutcomes :
        LET r == GetAccountSummary(mgr[Self], account_code, out) IN
        /\ mgr' = Store(mgr, Self, r.c)
        /\ results' = [results EXCEPT
                          !.error = TextValue(StageConnErrorText(pending)),
                          !.account_summary = r.ret,
                          !.connection_status = FALSE]
        /\ h' = [Invoked(r.calls) EXCEPT
                    !.raised = @ \/ (r.calls.acct > 0 /\ out.exc # NoExc),
                    !.handled = pending]
    /\ pending' = NoExc
    /\ pc' = "finally"
    /\ UNCHANGED <<last, account_code, symbol, ib_instance>>

\* lines 125-130: except Exception as e
ExceptOther ==
    /\ pc = "except_other"
    /\ \E out \in AccountOutcomes :
        LET r == GetAccountSummary(mgr[Self], account_code, out) IN
        /\ mgr' = Store(mgr, Self, r.c)
        /\ results' = [results EXCEPT
                          !.error = TextValue(StageOtherErrorText(pending)),
                          !.account_summary = r.ret]
        /\ h' = [Invoked(r.calls) EXCEPT
                    !.raised = @ \/ (r.calls.acct > 0 /\ out.exc # NoExc),
                    !.handled = pending]
    /\ pc' = "except_other_status"
    /\ UNCHANGED <<last, account_code, symbol, ib_instance, pending>>

\* line 131: results['connection_status'] = manager.is_connected()
ExceptOtherStatus ==
    /\ pc = "except_other_status"
    /\ LET r == MgrIsConnected(mgr[Self]) IN
        /\ mgr' = Store(mgr, Self, r.c)
        /\ results' = [results EXCEPT !.connection_status = r.ret]
    /\ pending' = NoExc
    /\ pc' = "finally"
    /\ UNCHANGED <<last, account_code, symbol, ib_instance, h>>

\* lines 134-142: the outer finally block; an exception raised in it leaves
\* the function before its return statement
Finally ==
    /\ pc = "finally"
    /\ IF FinalGuard(mgr[Self])
       THEN \E out \in DisconnectOutcomes :
            LET r == MgrDisconnect(MgrIsConnected(mgr[Self]).c, out) IN
            /\ mgr' = Store(mgr, Self, r.c)
            /\ h' = [Invoked(r.calls) EXCEPT !.nMgrDisconnect = @ + 1,
                        !.raised = @ \/ r.exc # NoExc]
            /\ pending' = r.exc
            /\ pc' = IF r.exc # NoExc THEN "raised" ELSE "returned"
       ELSE /\ mgr' = Store(mgr, Self, MgrIsConnected(mgr[Self]).c)
            /\ pending' = NoExc
            /\ pc' = "returned"
            /\ UNCHANGED h
    /\ UNCHANGED <<last, account_code, symbol, results, ib_instance>>

\* The session is lost from outside while the call runs.
SessionDrops ==
    /\ pc \notin {"returned", "raised"}
    /\ Drop(Self)
    /\ UNCHANGED stageVars

Next ==
    \/ Acquire
    \/ CheckConnected
    \/ EarlyReturn
    \/ FetchSummary
    \/ BuildContract
    \/ RequestMarketData
    \/ Wait
    \/ ReadSnapshot
    \/ Cleanup
    \/ ExceptConnection
    \/ ExceptOther
    \/ ExceptOtherStatus
    \/ Finally
    \/ SessionDrops

Spec == Init /\ [][Next]_vars

Returned == pc = "returned"

\* Every collaborator call returns or raises, so the call always takes its
\* next step.
FairSpec == Spec /\ WF_vars(Next)

(* ------------------------------ claims -------------------------------- *)

\* C1: in every call of initialize_stage_one, whichever branch is taken,
\* ConnectionManager.disconnect() is invoked exactly once before the return.
C1_DisconnectExactlyOnce == Returned => h.nMgrDisconnect = 1

\* C2, as stated: whenever reqMktData was invoked, cancelMktData is invoked
\* exactly once before the return, an external drop of the session included.
C2_CancelExactlyOnce == Returned /\ h.nReq > 0 => h.nCancel = 1

\* C2, amended: cancelMktData is never invoked more than once nor without a
\* request; when reqMktData was invoked it is invoked exactly once if the
\* client still reports connected at the cleanup, and not at all if not.
C2_CancelOnceIfConnected ==
    /\ h.nReq <= 1 /\ h.nCancel <= 1
    /\ h.nCancel = 1 => h.nReq = 1
    /\ Returned /\ h.nReq = 1 =>
          /\ h.cleanupConnected.kind = "bool"
          /\ h.nCancel = IF h.cleanupConnected.val THEN 1 ELSE 0

\* C2: the session dropped between the request and the cleanup.
C2_Witness ==
    /\ Returned /\ h.nReq = 1
    /\ h.cleanupConnected = BoolValue(FALSE)
    /\ h.mdExc = NoExc

C4_NeverRaises == pc # "raised"

\* C5: when get_ib_instance() raises ConnectionError, the returned record has
\* connection_status false, an error containing the text of that error, no
\* market_data, an account_summary with the requested account code, and
\* neither reqMktData nor cancelMktData was invoked.
C5_AcquisitionFailure ==
    Returned /\ h.acqExc # NoExc =>
        /\ results.connection_status = FALSE
        /\ results.error.kind = "str"
        /\ Contains(results.error.val, h.acqExc.msg)
        /\ results.market_data = NoValue
        /\ "AccountCode" \in DOMAIN results.account_summary
        /\ results.account_summary["AccountCode"] = <<account_code>>
        /\ h.nReq = 0 /\ h.nCancel = 0

\* C5: a return after ib.connect() was invoked and get_ib_instance() raised.
C5_Witness ==
    /\ Returned /\ h.acqExc # NoExc /\ h.acqExc.msg # <<>>
    /\ h.calls.open = 1

\* The snapshot read returned a ticker with a last or a close price.
SnapshotPriced ==
    /\ h.snap.kind = "ticker"
    /\ h.snap.val.last \notin {<<>>, <<0>>} \/ h.snap.val.close \notin {<<>>, <<0>>}

\* C6: when the session is acquired, no collaborator call raises and the
\* snapshot has a last or close price, the record has connection_status true,
\* no error, market_data a mapping with the requested symbol, and an
\* account_summary with the account code and at least one financial tag, for
\* every list of account values, the empty list included.
C6_SuccessfulRun ==
    Returned /\ h.acqExc = NoExc /\ ~h.raised /\ SnapshotPriced =>
        /\ results.connection_status = TRUE
        /\ results.error = NoValue
        /\ results.market_data.kind = "dict"
        /\ results.market_data.val["symbol"] = <<symbol>>
        /\ "AccountCode" \in DOMAIN results.account_summary
        /\ results.account_summary["AccountCode"] = <<account_code>>
        /\ DOMAIN results.account_summary \cap KnownTags # {}

\* The snapshot read returned no ticker, or one with neither price.
SnapshotUnpriced ==
    \/ h.snap.kind = "none"
    \/ /\ h.snap.kind = "ticker"
       /\ h.snap.val.last = <<>>
       /\ h.snap.val.close = <<>>

\* What C7 says of the record.
NoDataRecord ==
    /\ results.market_data.kind = "str"
    /\ Contains(results.market_data.val, <<"No market data received for ", symbol>>)
    /\ results.connection_status = TRUE
    /\ results.error = NoValue
    /\ results.account_summary = h.summary3.val

MdErrorRecord ==
    /\ results.market_data.kind = "str"
    /\ Contains(results.market_data.val, <<symbol>>)
    /\ Contains(results.market_data.val, h.mdExc.msg)
    /\ results.connection_status = TRUE
    /\ results.error = NoValue
    /\ results.account_summary = h.summary3.val

C9_ConnectIdempotent ==
    last.op = "connect" /\ last.pre.ib =>
        /\ last.exc = NoExc
        /\ last.calls.open = 0
        /\ ConnectorIsConnected(mgr[last.m]).ret = TRUE

\* C9: connect() was called on an open session.
C9_Witness == last.op = "connect" /\ last.pre.ib /\ last.calls.connect = 1

\* C10: get_ib_instance() on an open session invokes no connect on the
\* connector and returns the handle it holds from the first call; whenever it
\* returns, the handle is the connector's client object, and not None.
C10_LazyGetIbInstance ==
    last.op = "get_ib_instance" =>
        /\ last.exc = NoExc =>
              /\ last.ret = mgr[last.m].ibObj
              /\ last.ret # 0
        /\ last.pre.ib =>
              /\ last.exc = NoExc
              /\ last.calls.connect = 0
              /\ last.pre.inst # 0 => last.ret = last.pre.inst

\* C10: get_ib_instance() returned on an open session that it had opened.
C10_Witness ==
    /\ last.op = "get_ib_instance" /\ last.pre.ib /\ last.pre.inst # 0
    /\ last.exc = NoExc

\* C11: after any sequence of connects, disconnects, failed connects and
\* external drops, is_connected() of the connector and of the manager returns
\* the client's connected state at the time of the call, never a cached one.
C11_IsConnectedLive ==
    last.op \in {"connector_is_connected", "is_connected"} =>
        /\ last.ret = last.pre.ib
        /\ last.ret = mgr[last.m].ib
        /\ last.exc = NoExc

\* C11: is_connected() was called after a drop had left the flag stale.
C11_Witness ==
    /\ last.op \in {"connector_is_connected", "is_connected"}
    /\ last.pre.flag /\ ~last.pre.ib
    /\ last.ret = FALSE

\* The ConnectionError connect() raises when ib.connect() raised e.
ConnectErrorFor(e) ==
    IF e.type = "ConnectionRefusedError"
    THEN Exc("ConnectionError",
             <<"Connection refused by IB Gateway/TWS on ", Host, ":", PortText>>)
    ELSE Exc("ConnectionError", <<"Failed to connect to IB: ">> \o e.msg)

\* ib.connect() was invoked by the last call and raised.
OpenRaised == last.calls.open = 1 /\ last.inp # NoExc

\* C12: when ib.connect() raises, connect() raises ConnectionError and sets
\* its flag to false, and get_ib_instance() raises that same ConnectionError,
\* not wrapped, and does not set its session handle.
C12_ConnectFailure ==
    /\ last.op = "connect" /\ OpenRaised =>
          /\ last.exc = ConnectErrorFor(last.inp)
          /\ mgr[last.m].flag = FALSE
          /\ mgr[last.m].ib = FALSE
    /\ last.op = "get_ib_instance" /\ OpenRaised =>
          /\ last.exc = ConnectErrorFor(last.inp)
          /\ mgr[last.m].flag = FALSE
          /\ mgr[last.m].inst = last.pre.inst

\* C12: connect() failed on a connector whose flag was still set after a drop.
C12_Witness ==
    /\ last.op = "connect" /\ OpenRaised
    /\ last.pre.flag
    /\ last.inp.type = "ConnectionRefusedError"

\* The last call was get_account_summary on a manager that was disconnected:
\* its client's session was not open, or it held no session handle.
SummaryWhileDisconnected ==
    /\ last.op = "get_account_summary"
    /\ ~last.pre.ib \/ last.pre.inst = 0

\* The last call was get_account_summary on a connected manager holding a handle.
SummaryWhileConnected ==
    /\ last.op = "get_account_summary"
    /\ last.pre.ib /\ last.pre.inst # 0

\* C13: on a disconnected manager get_account_summary(account_code) returns
\* the fixed six-key mock mapping, with AccountCode the argument and
\* ConnectionStatus "Disconnected - Mock Data", and does not call accountValues.
C13_MockWhenDisconnected ==
    SummaryWhileDisconnected =>
        /\ last.exc = NoExc
        /\ last.calls.acct = 0
        /\ DOMAIN last.ret = {"AccountCode", "NetLiquidation", "TotalCashValue",
                              "RealizedPnL", "UnrealizedPnL", "ConnectionStatus"}
        /\ last.ret["AccountCode"] = <<account_code>>
        /\ last.ret["ConnectionStatus"] = <<"Disconnected - Mock Data">>
        /\ last.ret["NetLiquidation"] = <<"1000000 (Mock)">>
        /\ last.ret["TotalCashValue"] = <<"1000000 (Mock)">>
        /\ last.ret["RealizedPnL"] = <<"0 (Mock)">>
        /\ last.ret["UnrealizedPnL"] = <<"0 (Mock)">>

\* C13: the summary was asked of a manager whose connector is connected but
\* which holds no handle.
C13_Witness ==
    /\ last.op = "get_account_summary"
    /\ last.pre.ib /\ last.pre.inst = 0
    /\ last.calls.acct = 0

\* The live query of the last call returned a non-empty list.
LiveNonEmpty ==
    /\ SummaryWhileConnected
    /\ last.calls.acct = 1
    /\ last.inp.exc = NoExc
    /\ last.inp.values # <<>>

\* The tags of the list the query returned.
InputTags == { last.inp.values[i].tag : i \in DOMAIN last.inp.values }

\* The value the list gives for tag t: that of its last element with the tag.
InputValue(t) ==
    LET at == { i \in DOMAIN last.inp.values : last.inp.values[i].tag = t }
        i == CHOOSE i \in at : \A j \in at : j <= i
    IN  last.inp.values[i].value

C15_QueryFailure ==
    SummaryWhileConnected /\ last.calls.acct = 1 /\ last.inp.exc # NoExc =>
        /\ last.exc = NoExc
        /\ {"AccountCode", "Error", "NetLiquidation", "TotalCashValue"}
              \subseteq DOMAIN last.ret
        /\ last.ret["AccountCode"] = <<account_code>>
        /\ last.ret["Error"] = last.inp.exc.msg
        /\ last.ret["NetLiquidation"] = <<"Error (Mock)">>
        /\ last.ret["TotalCashValue"] = <<"Error (Mock)">>

\* C15: accountValues raised on a connected manager.
C15_Witness ==
    /\ SummaryWhileConnected
    /\ last.calls.acct = 1
    /\ last.inp.exc # NoExc
    /\ "Error" \in DOMAIN last.ret

\* C16: when the manager is connected and accountValues returns an empty
\* list, the mapping returned holds mock NetLiquidation and TotalCashValue
\* entries besides the account code.
C16_EmptyListMock ==
    /\ SummaryWhileConnected
    /\ last.calls.acct = 1
    /\ last.inp.exc = NoExc
    /\ last.inp.values = <<>>
    => {"AccountCode", "NetLiquidation", "TotalCashValue"} \subseteq DOMAIN last.ret

\* The last call was a disconnect(), of the connector or of the manager.
DisconnectCalled == last.op \in {"connector_disconnect", "disconnect"}

\* A disconnect() on a session that is not open does nothing.
DisconnectClosedNoOp ==
    DisconnectCalled /\ ~last.pre.ib =>
        /\ last.calls.close = 0
        /\ last.exc = NoExc
        /\ mgr[last.m].ib = last.pre.ib
        /\ mgr[last.m].sub = last.pre.sub
        /\ mgr[last.m].inst = last.pre.inst

\* C17: IBConnector.disconnect() and ConnectionManager.disconnect() on a
\* session that is not open are no-ops (ib.disconnect() is not invoked,
\* nothing is raised, session and handle are unchanged); on an open session
\* they close it, and the manager's handle becomes null.
C17_Disconnect ==
    /\ DisconnectClosedNoOp
    /\ DisconnectCalled /\ last.pre.ib =>
          /\ last.calls.close = 1
          /\ ~mgr[last.m].ib
          /\ last.op = "disconnect" => mgr[last.m].inst = 0

\* C17, amended: the same when ib.disconnect() returns; when it raises, the
\* exception leaves disconnect() and the manager keeps its handle.
C17_DisconnectUnlessCloseRaises ==
    /\ DisconnectClosedNoOp
    /\ DisconnectCalled /\ last.pre.ib =>
          /\ last.calls.close = 1
          /\ last.exc = last.inp.exc
          /\ last.exc = NoExc =>
                /\ ~mgr[last.m].ib
                /\ ~mgr[last.m].flag
                /\ last.op = "disconnect" => mgr[last.m].inst = 0
          /\ last.exc # NoExc =>
                /\ mgr[last.m].ib = ~last.inp.closed
                /\ mgr[last.m].inst = last.pre.inst

\* C17: the manager's disconnect() closed an open session whose handle it held.
C17_Witness ==
    /\ last.op = "disconnect"
    /\ last.pre.ib /\ last.pre.inst # 0
    /\ last.exc = NoExc
    /\ ~mgr[last.m].ib /\ mgr[last.m].inst = 0

\* C18: two managers share no mutable state: a call of any method on one
\* manager (and a drop of its session) leaves the connector, the client, the
\* handle and so the is_connected() answer of every other manager unchanged.
C18_NoSharedState ==
    [][\A m \in Managers : last'.m # m => mgr'[m] = mgr[m]]_vars

\* C18: manager 1 has just been given its handle on an open session while
\* manager 2 holds none and is not connected.
C18_Witness ==
    /\ last.op = "get_ib_instance" /\ last.m = 1 /\ last.exc = NoExc
    /\ mgr[1].ib /\ mgr[1].inst # 0
    /\ ~mgr[2].ib /\ mgr[2].inst = 0
    /\ ~MgrIsConnected(mgr[2]).ret

\* The stage of a client operation in the order open-session, account-values,
\* request-market-data, read-snapshot, cancel-market-data, close-session.
StageOf(op) ==
    CASE op = "connect" -> 1
      [] op = "accountValues" -> 2
      [] op = "reqMktData" -> 3
      [] op = "ticker" -> 4
      [] op = "cancelMktData" -> 5
      [] op = "disconnect" -> 6

\* C19: within one call of initialize_stage_one no operation of an earlier
\* stage is invoked after one of a later stage (accountValues never after
\* cancelMktData), and no session operation after the session was closed.
C19_OperationOrder ==
    \A i, j \in DOMAIN h.ops : i < j => StageOf(h.ops[i]) <= StageOf(h.ops[j])

\* The call is over: it has returned, or an exception has left it.
Done == pc \in {"returned", "raised"}

\* C20: one call of initialize_stage_one makes exactly one attempt to acquire
\* the session on every branch: get_ib_instance() is invoked exactly once and
\* ib.connect() at most once, with no retry after a failure.
C20_SingleAcquisition ==
    /\ h.nGetIb <= 1
    /\ h.calls.open <= 1
    /\ h.calls.connect <= 1
    /\ pc # "acquire" => h.nGetIb = 1
    /\ Done => h.nGetIb = 1

\* C20: the call is over after its one attempt, which failed in ib.connect().
C20_Witness ==
    /\ Done
    /\ h.acqExc # NoExc
    /\ h.nGetIb = 1 /\ h.calls.open = 1

\* An exception other than a failure of the session acquisition reached one
\* of the outer handlers, and the call has returned.
EscapedAndReturned ==
    /\ Returned
    /\ h.acqExc = NoExc
    /\ h.handled # NoExc

\* C21: when an exception other than the session-acquisition failure escapes
\* steps 2-7, the returned record has error set to a text containing the
\* exception's text, and account_summary is the mock account summary, the
\* mapping get_account_summary returns when disconnected.
C21_EscapedException ==
    EscapedAndReturned =>
        /\ results.error.kind = "str"
        /\ Contains(results.error.val, h.handled.msg)
        /\ results.account_summary = MockSummary(account_code)

\* C22: every value get_account_summary(account_code) returns, on every
\* branch, is a mapping whose AccountCode entry is the argument.
C22_AccountCodeEchoed ==
    last.op = "get_account_summary" =>
        /\ last.exc = NoExc
        /\ "AccountCode" \in DOMAIN last.ret
        /\ last.ret["AccountCode"] = <<account_code>>

\* C22: the live query returned an empty list.
C22_Witness ==
    /\ SummaryWhileConnected
    /\ last.calls.acct = 1
    /\ last.inp = [exc |-> NoExc, values |-> <<>>]
    /\ DOMAIN last.ret = {"Error", "AccountCode"}

\* market_data is set only in a call that invoked reqMktData.
MarketDataOnlyAfterRequest ==
    Returned /\ results.market_data # NoValue => h.nReq = 1

\* C23: in every record returned, market_data is non-null only if a
\* market-data request was invoked in the call, and connection_status false
\* implies market_data null.
C23_MarketDataGuarded ==
    /\ MarketDataOnlyAfterRequest
    /\ Returned /\ ~results.connection_status => results.market_data = NoValue

\* C23, amended: connection_status false implies market_data null unless
\* cancelMktData raised after the inner block had stored its market_data; a
\* record with connection_status false and market_data set comes only from
\* that case.
C23_MarketDataGuardedUnlessCancelRaises ==
    /\ MarketDataOnlyAfterRequest
    /\ Returned /\ ~results.connection_status /\ h.cancelExc = NoExc
          => results.market_data = NoValue
    /\ Returned /\ ~results.connection_status /\ results.market_data # NoValue
          => /\ h.nCancel = 1
             /\ h.handled = h.cancelExc
             /\ results.error.kind = "str"

\* C23: the call returned connection_status false and no market_data after
\* the session had been acquired and lost before the connection check.
C23_Witness ==
    /\ Returned
    /\ ~results.connection_status
    /\ results.market_data = NoValue
    /\ h.acqExc = NoExc /\ h.nReq = 0

\* C24: provided each collaborator call returns or raises, every call of
\* initialize_stage_one eventually reaches its return.
C24_ReachesReturn == <>Returned

\* The last call was a method of the connector itself.
ConnectorCalled ==
    last.op \in {"connect", "connector_disconnect", "connector_is_connected"}

\* C25: whenever connect(), disconnect() or is_connected() of the connector
\* returns or raises, the cached flag equals the client's connected state.
C25_FlagTracksClient ==
    ConnectorCalled => mgr[last.m].flag = mgr[last.m].ib

\* C25, amended: the flag equals the client's state after connect() and
\* is_connected(), and after a disconnect() whose ib.disconnect() returned;
\* a disconnect() that finds the session not open leaves the flag as it was,
\* and one whose ib.disconnect() raises leaves it set.
C25_FlagTracksClientExceptDisconnect ==
    /\ last.op \in {"connect", "connector_is_connected"}
          => mgr[last.m].flag = mgr[last.m].ib
    /\ last.op = "connector_disconnect" =>
          /\ last.pre.ib /\ last.exc = NoExc
                => mgr[last.m].flag = FALSE /\ mgr[last.m].ib = FALSE
          /\ last.pre.ib /\ last.exc # NoExc => mgr[last.m].flag = last.pre.flag
          /\ ~last.pre.ib
                => mgr[last.m].flag = last.pre.flag /\ mgr[last.m].ib = FALSE

\* C25: disconnect() of the connector has closed an open session.
C25_Witness ==
    /\ last.op = "connector_disconnect"
    /\ last.pre.ib /\ last.pre.flag
    /\ last.exc = NoExc
    /\ ~mgr[last.m].flag /\ ~mgr[last.m].ib

====
